---- MODULE Spec2Model ----
(***************************************************************************)
(* Model of Web3Utility                                                    *)
(* (op-monitorism/faultproof_withdrawals/runbooks/automated/lib/web3.py):  *)
(*   - find_block_one_week_ago      (the block locator),                   *)
(*   - find_latest_withdrawal_event (the log scanner),                     *)
(*   - get_game_data                (the withdrawal/game aggregator).      *)
(* Each routine is synchronous and keeps no state between calls, so each   *)
(* has its own specification over the shared variables: SpecLocator        *)
(* (FairLocator with fairness), SpecScanner (FairScanner with fairness,    *)
(* SpecScannerLive with a chain head that advances) and SpecAggregator     *)
(* (SpecAggregatorTwice with a second call).                               *)
(***************************************************************************)
EXTENDS Integers, Sequences, FiniteSets, TLC

VARIABLES
    \* ---- the settlement chain (l1_geth), read-only for the program
    chain,      \* block timestamps: block b has timestamp chain[b + 1]
    events,     \* block numbers that hold a WithdrawalProvenExtension1 log
    \* ---- find_block_one_week_ago
    locPc,      \* "idle" | "search" | "refine" | "returned" | "raised"
    target,     \* target_timestamp
    latest,     \* latest_block
    low,        \* low
    high,       \* high
    closest,    \* closest_block
    locRet,     \* the returned block number
    locVia,     \* which return was taken: "exact" | "refine"
    locReads,   \* the block numbers passed to eth.get_block, in order
    locRefines, \* how many of them were read by the refinement loop
    \* ---- find_latest_withdrawal_event
    scanPc,     \* "idle" | "loop" | "fetch" | "returned" | "notfound" | "raised"
    scanArg,    \* starting_block_search as passed by the caller
    scanStart,  \* starting_block_search after line 70
    batch,      \* batch_size
    scanHead,   \* latest_block
    scanCur,    \* current_max_block
    scanFrom,   \* from_block
    scanLast,   \* outcome of the last window: "none" | "empty" | "found" | "logsFail" | "tsFail"
    scanFailed, \* some chain read of this scan raised
    scanWindows,\* the windows passed to get_logs so far, each with its outcome
    scanHeadReads, \* how many times this scan has read eth.block_number
    scanRet,    \* the returned record
    \* ---- the bridge, the games, the message passer (chain state read by get_game_data)
    proven,     \* provenWithdrawals: <<hash, submitter>> -> game address
    gameL2,     \* l2BlockNumber of each game
    sent,       \* sentMessages: hash -> BOOLEAN
    \* ---- get_game_data
    aggPc,      \* "idle" | "decode" | "proven" | "bind" | "l2" | "root" | "sent" | "output" | "returned" | "raised"
    aggArg,     \* withDrawalHash as passed by the caller: [kind, val]
    aggSub,     \* proofSubmitter
    aggHash,    \* withDrawalHash after lines 171-172
    aggLoc,     \* the locals gameProxyAddress, timestamp, l2BlockNumber, rootClaim, sentMessages, optimism_outputAtBlock
    aggTrace,   \* the collaborator calls issued, in order
    aggFailedAt,\* the step that raised, "none" if none
    aggReq,     \* the parameter of the optimism_outputAtBlock request sent, << >> if none
    aggCalls,   \* how many get_game_data calls were made
    aggPrev,    \* how the previous call ended: [pc, ret, failedAt]
    aggRet      \* the returned record

locVars  == <<locPc, target, latest, low, high, closest, locRet, locVia, locReads, locRefines>>
scanVars == <<scanPc, scanArg, scanStart, batch, scanHead, scanCur, scanFrom, scanLast, scanFailed, scanWindows, scanHeadReads, scanRet>>
aggVars  == <<aggPc, aggArg, aggSub, aggHash, aggLoc, aggTrace, aggFailedAt, aggReq, aggCalls, aggPrev, aggRet>>
l1Vars   == <<chain, events>>
l2Vars   == <<proven, gameL2, sent>>
vars     == <<l1Vars, l2Vars, locVars, scanVars, aggVars>>

\* ---------------------------------------------------------------- bounds
MaxHead == 3        \* locator: the head block number is at most MaxHead
MaxTime == 3        \* locator: block timestamps range over 1..MaxTime
MaxScanHead == 5    \* scanner: the head block number is at most MaxScanHead
MaxBatch == 3       \* scanner: batch_size ranges over 1..MaxBatch

Max(a, b) == IF a >= b THEN a ELSE b

\* ------------------------------------------------------- the chain (l1_geth)
L1Head == Len(chain) - 1                      \* eth.block_number
TS(b) == chain[b + 1]                       \* eth.get_block(b).timestamp
BlockExists(b) == b >= 0 /\ b <= L1Head       \* eth.get_block(b) raises otherwise

\* the unused parts of the state
NoRet == -1
LocIdle ==
    /\ locPc = "idle" /\ target = 0 /\ latest = 0 /\ low = 0 /\ high = 0
    /\ closest = 0 /\ locRet = NoRet /\ locVia = "none" /\ locReads = << >>
    /\ locRefines = 0

\* ================================================== find_block_one_week_ago
\* line 145
Mid(lo, hi) == (lo + hi) \div 2

\* lines 149-155, with the branches of the comparison exchanged
SearchStep_swapped(lo, hi, mid, bt, t) ==
    IF bt > t THEN [low |-> mid + 1, high |-> hi, found |-> FALSE]
    ELSE IF bt < t THEN [low |-> lo, high |-> mid - 1, found |-> FALSE]
    ELSE [low |-> lo, high |-> hi, found |-> TRUE]

\* lines 149-155: one comparison of the binary search
SearchStep(lo, hi, mid, bt, t) ==
    IF bt < t THEN [low |-> mid + 1, high |-> hi, found |-> FALSE]
    ELSE IF bt > t THEN [low |-> lo, high |-> mid - 1, found |-> FALSE]
    ELSE [low |-> lo, high |-> hi, found |-> TRUE]

\* line 158
ClosestBlock(lo, hi, lat) == IF lo < lat THEN lo ELSE hi

\* line 163 with the comparison reversed
RefineAccept_reversed(bt, t) == bt >= t

\* line 163
RefineAccept(bt, t) == bt <= t

\* lines 133-142: the target timestamp (a parameter here) and the head are read
LocStart(t) ==
    /\ locPc = "idle"
    /\ locPc' = "search"
    /\ target' = t
    /\ latest' = L1Head
    /\ low' = 0
    /\ high' = L1Head
    /\ UNCHANGED <<closest, locRet, locVia, locReads, locRefines>>
    /\ UNCHANGED <<l1Vars, l2Vars, scanVars, aggVars>>

\* lines 144-155: one iteration of the binary search
LocSearch ==
    /\ locPc = "search"
    /\ low <= high
    /\ LET mid == Mid(low, high) IN
       /\ locReads' = Append(locReads, mid)
       /\ IF ~BlockExists(mid)
          THEN /\ locPc' = "raised"
               /\ UNCHANGED <<low, high, locRet, locVia>>
          ELSE LET r == SearchStep(low, high, mid, TS(mid), target) IN
               /\ low' = r.low
               /\ high' = r.high
               /\ IF r.found
                  THEN locPc' = "returned" /\ locRet' = mid /\ locVia' = "exact"
                  ELSE locPc' = "search" /\ UNCHANGED <<locRet, locVia>>
    /\ UNCHANGED <<target, latest, closest, locRefines>>
    /\ UNCHANGED <<l1Vars, l2Vars, scanVars, aggVars>>

\* lines 144, 158: the search ends without an exact match
LocPick ==
    /\ locPc = "search"
    /\ low > high
    /\ closest' = ClosestBlock(low, high, latest)
    /\ locPc' = "refine"
    /\ UNCHANGED <<target, latest, low, high, locRet, locVia, locReads, locRefines>>
    /\ UNCHANGED <<l1Vars, l2Vars, scanVars, aggVars>>

\* lines 159-166: one iteration of the backward refinement
LocRefine ==
    /\ locPc = "refine"
    /\ locReads' = Append(locReads, closest)
    /\ locRefines' = locRefines + 1
    /\ IF ~BlockExists(closest)
       THEN /\ locPc' = "raised"
            /\ UNCHANGED <<closest, locRet, locVia>>
       ELSE IF RefineAccept(TS(closest), target)
            THEN /\ locPc' = "returned"
                 /\ locRet' = closest
                 /\ locVia' = "refine"
                 /\ UNCHANGED closest
            ELSE /\ closest' = closest - 1
                 /\ UNCHANGED <<locPc, locRet, locVia>>
    /\ UNCHANGED <<target, latest, low, high>>
    /\ UNCHANGED <<l1Vars, l2Vars, scanVars, aggVars>>

\* ============================================= find_latest_withdrawal_event
RECURSIVE Ascending(_)
\* the blocks of a set, in ascending order
Ascending(S) ==
    IF S = {} THEN << >>
    ELSE LET m == CHOOSE x \in S : \A y \in S : y <= x
         IN Append(Ascending(S \ {m}), m)

\* line 77 with the upper bound of the range left out of the query
GetLogs_exclusive(from, to) == Ascending({e \in events : e >= from /\ e < to})

\* line 77: events.WithdrawalProvenExtension1().get_logs(from_block, to_block);
\* the node answers with the logs of the range in ascending block order
GetLogs(from, to) == Ascending({e \in events : e >= from /\ e <= to})

\* line 76 with the window one block longer
FromBlock_wide(cur, bsz) == Max(0, cur - bsz - 1)

\* line 76
FromBlock(cur, bsz) == Max(0, cur - bsz)

\* line 77 with the head read again for every window
ToBlock_live(cur) == L1Head

\* line 77: to_block=current_max_block
ToBlock(cur) == cur

\* line 80 taking the first log of the window
LastLog_first(logs) == logs[1]

\* line 80: logs[-1]
LastLog(logs) == logs[Len(logs)]

\* lines 115-123: get_block_timestamp (the formatted string is left out)
GetBlockTimestamp(b) == [blockNumber |-> b, timestamp |-> TS(b)]

\* line 74 with the starting block ignored
InRange_always(cur, start) == cur >= 0

\* line 74: the loop condition
InRange(cur, start) == cur >= start

NoEvent == [log |-> NoRet, timestamp |-> [blockNumber |-> NoRet, timestamp |-> 0]]

ScanIdle ==
    /\ scanPc = "idle" /\ scanArg = 0 /\ scanStart = 0 /\ batch = 1
    /\ scanHead = 0 /\ scanCur = 0 /\ scanFrom = NoRet /\ scanLast = "none"
    /\ scanFailed = FALSE /\ scanRet = NoEvent
    /\ scanWindows = {} /\ scanHeadReads = 0

\* lines 67-71: the head is read once and the starting block is clamped;
\* a failure of the head read is not caught
ScanCall(s, bsz, headOk) ==
    /\ scanPc = "idle"
    /\ scanArg' = s
    /\ batch' = bsz
    /\ scanHeadReads' = scanHeadReads + 1
    /\ IF headOk
       THEN /\ scanHead' = L1Head
            /\ scanStart' = Max(0, s)
            /\ scanCur' = L1Head
            /\ scanPc' = "loop"
            /\ UNCHANGED scanFailed
       ELSE /\ scanPc' = "raised"
            /\ scanFailed' = TRUE
            /\ UNCHANGED <<scanHead, scanStart, scanCur>>
    /\ UNCHANGED <<scanFrom, scanLast, scanWindows, scanRet>>
    /\ UNCHANGED <<l1Vars, l2Vars, locVars, aggVars>>

\* line 74 (and line 90 when the condition is false)
ScanGuard ==
    /\ scanPc = "loop"
    /\ scanPc' = IF InRange(scanCur, scanStart) THEN "fetch" ELSE "notfound"
    /\ UNCHANGED <<scanArg, scanStart, batch, scanHead, scanCur, scanFrom, scanLast, scanFailed, scanWindows, scanHeadReads, scanRet>>
    /\ UNCHANGED <<l1Vars, l2Vars, locVars, aggVars>>

\* lines 75-88: one window. logsOk: get_logs answers; tsOk: the block read of
\* get_block_timestamp answers. Both calls are inside the try block.
ScanWindow(logsOk, tsOk) ==
    /\ scanPc = "fetch"
    /\ LET from == FromBlock(scanCur, batch)
           to   == ToBlock(scanCur)
           logs == GetLogs(from, to)
       IN /\ scanFrom' = from
          /\ IF ~logsOk
             THEN /\ scanLast' = "logsFail"
                  /\ scanFailed' = TRUE
                  /\ scanCur' = from
                  /\ scanPc' = "loop"
                  /\ UNCHANGED scanRet
             ELSE IF logs = << >>
             THEN /\ scanLast' = "empty"
                  /\ scanCur' = from
                  /\ scanPc' = "loop"
                  /\ UNCHANGED <<scanRet, scanFailed>>
             ELSE IF ~tsOk
             THEN /\ scanLast' = "tsFail"
                  /\ scanFailed' = TRUE
                  /\ scanCur' = from
                  /\ scanPc' = "loop"
                  /\ UNCHANGED scanRet
             ELSE /\ scanLast' = "found"
                  /\ scanRet' = [log |-> LastLog(logs),
                                 timestamp |-> GetBlockTimestamp(LastLog(logs))]
                  /\ scanPc' = "returned"
                  /\ UNCHANGED <<scanCur, scanFailed>>
          /\ scanWindows' = scanWindows \cup {[from |-> from, to |-> to, outcome |-> scanLast']}
    /\ UNCHANGED <<scanArg, scanStart, batch, scanHead, scanHeadReads>>
    /\ UNCHANGED <<l1Vars, l2Vars, locVars, aggVars>>

\* the settlement chain grows by one block, with or without a matching event,
\* while a scan is running
ChainAdvance(withEvent) ==
    /\ scanPc \in {"loop", "fetch"}
    /\ L1Head < MaxScanHead
    /\ chain' = Append(chain, Len(chain) + 1)
    /\ events' = IF withEvent THEN events \cup {L1Head + 1} ELSE events
    /\ UNCHANGED <<l2Vars, locVars, scanVars, aggVars>>

\* ============================================================ get_game_data
\* ---- bytes and hexadecimal text (text is a sequence of one-character strings)
HexChars == <<"0", "1", "2", "3", "4", "5", "6", "7", "8", "9", "a", "b", "c", "d", "e", "f">>
UpperHexChars == <<"0", "1", "2", "3", "4", "5", "6", "7", "8", "9", "A", "B", "C", "D", "E", "F">>

\* the value of a hexadecimal digit, -1 for any other character
CharValue(c) ==
    IF \E i \in 1..16 : HexChars[i] = c
    THEN (CHOOSE i \in 1..16 : HexChars[i] = c) - 1
    ELSE IF \E i \in 1..16 : UpperHexChars[i] = c
    THEN (CHOOSE i \in 1..16 : UpperHexChars[i] = c) - 1
    ELSE -1

\* line 172: bytes.fromhex(s) raises ValueError unless s is an even number of
\* hexadecimal digits (either case)
FromHexOk(s) == Len(s) % 2 = 0 /\ \A i \in 1..Len(s) : CharValue(s[i]) >= 0

\* line 172: bytes.fromhex(s)
FromHex(s) == [i \in 1..(Len(s) \div 2) |-> CharValue(s[2 * i - 1]) * 16 + CharValue(s[2 * i])]

\* line 186: rootClaim.hex(), two lower-case digits per byte
BytesHex(b) ==
    [i \in 1..(2 * Len(b)) |->
        IF i % 2 = 1 THEN HexChars[(b[(i + 1) \div 2] \div 16) + 1]
                     ELSE HexChars[(b[i \div 2] % 16) + 1]]

RECURSIVE HexDigitsOf(_)
HexDigitsOf(n) ==
    IF n < 16 THEN <<HexChars[n + 1]>>
    ELSE Append(HexDigitsOf(n \div 16), HexChars[(n % 16) + 1])

\* line 193: hex(blockNumber) of a non-negative integer
IntToHex(n) == <<"0", "x">> \o HexDigitsOf(n)

RECURSIVE DigitsValue(_)
DigitsValue(s) ==
    IF s = << >> THEN 0
    ELSE DigitsValue(SubSeq(s, 1, Len(s) - 1)) * 16 + CharValue(s[Len(s)])

\* the rollup node reads its parameter, a 0x-prefixed hexadecimal block number
HexToInt(s) == DigitsValue(SubSeq(s, 3, Len(s)))

\* ---- the chain state read by get_game_data
Hashes == {<<171, 205>>, <<1, 239>>}         \* withdrawal hashes, as bytes
Submitters == {"prover1", "prover2"}
Games == {"game1", "game2"}
L2Blocks == {9, 26}
ProvenRecords == [gameProxyAddress : Games, timestamp : {1700}]

\* game.functions.rootClaim().call(): the root claim of each game, as bytes
RootClaimOf(g) == IF g = "game1" THEN <<18, 52>> ELSE <<171, 0>>

\* the rollup node's output root for L2 block n
OutputRootAt(n) == <<"0", "x", "f">> \o HexDigitsOf(n)

\* what requests.post (line 205) can give for the request with parameter p:
\* status 0 stands for no response at all (requests raises)
Responses(p) ==
    { [status |-> 200, hasResult |-> TRUE,  outputRoot |-> OutputRootAt(HexToInt(p))],
      [status |-> 200, hasResult |-> FALSE, outputRoot |-> << >>],
      [status |-> 500, hasResult |-> FALSE, outputRoot |-> << >>],
      [status |-> 0,   hasResult |-> FALSE, outputRoot |-> << >>] }

\* lines 207-210: optimism_output_at_block on a response
OutputAtBlockOk(resp) == resp.status = 200 /\ resp.hasResult

NoneVal == <<"None">>
UnsetLocals ==
    [gameProxyAddress |-> "", timestamp |-> 0, game |-> "", l2BlockNumber |-> 0,
     rootClaim |-> << >>, sentMessages |-> FALSE, optimism_outputAtBlock |-> << >>]
NoRecord ==
    [gameProxyAddress |-> "", timestamp |-> 0, l2BlockNumber |-> 0,
     rootClaim |-> << >>, sentMessages |-> FALSE, optimism_outputAtBlock |-> << >>]

NoCall == [pc |-> "none", ret |-> NoRecord, failedAt |-> "none"]

AggIdle ==
    /\ aggPc = "idle" /\ aggArg = [kind |-> "bytes", val |-> << >>] /\ aggSub = ""
    /\ aggHash = << >> /\ aggLoc = UnsetLocals /\ aggTrace = << >>
    /\ aggFailedAt = "none" /\ aggRet = NoRecord
    /\ aggReq = << >> /\ aggCalls = 0 /\ aggPrev = NoCall

\* the forms in which a caller passes the withdrawal hash h
HashForms(h) ==
    { [kind |-> "bytes", val |-> h],
      [kind |-> "str", val |-> BytesHex(h)],
      [kind |-> "str", val |-> [i \in 1..(2 * Len(h)) |-> UpperHexChars[CharValue(BytesHex(h)[i]) + 1]]],
      [kind |-> "str", val |-> <<"0", "x">> \o BytesHex(h)] }

\* the collaborator calls of lines 173-181, in program order
AggOrder == <<"proven", "bind", "l2", "root", "sent", "output">>

\* lines 173-181 with the sentMessages read moved before the reads of the game
NextPc_sentEarly(step) ==
    LET order == <<"proven", "bind", "sent", "l2", "root", "output">> IN
    IF step = "output" THEN "return"
    ELSE IF step = "root" THEN "output"
    ELSE IF step = "sent" THEN "l2"
    ELSE IF step = "bind" THEN "sent"
    ELSE order[(CHOOSE i \in 1..Len(order) : order[i] = step) + 1]

NextPc(step) ==
    IF step = "output" THEN "return"
    ELSE AggOrder[(CHOOSE i \in 1..Len(AggOrder) : AggOrder[i] = step) + 1]

\* lines 171-184 with the try block also around the sentMessages read
Propagates_sentSoft(step) == step \in {"decode", "proven", "bind", "l2", "root"}

\* lines 171-184 without the try block
Propagates_all(step) == step \in {"decode", "proven", "bind", "l2", "root", "sent", "output"}

\* lines 171-178 are outside any try block; lines 180-184 catch Exception
Propagates(step) == step \in {"decode", "proven", "bind", "l2", "root", "sent"}

\* line 181 passing the proven-at timestamp instead of the L2 block number
OutputBlock_timestamp(loc) == loc.timestamp

\* line 181: the argument of optimism_output_at_block
OutputBlock(loc) == loc.l2BlockNumber

\* lines 193, 200: the parameter of the request
OutputParam(loc) == IntToHex(OutputBlock(loc))

\* lines 170-186 with the values read kept from one call to the next
FreshLocals_kept(prev) == prev

\* lines 170-186: the values read are locals of the call, nothing is stored on
\* self, so a call starts with none of them bound
FreshLocals(prev) == UnsetLocals

\* line 170: the call
AggCall(arg, sub) ==
    /\ aggPc = "idle"
    /\ aggPc' = "decode"
    /\ aggArg' = arg
    /\ aggSub' = sub
    /\ aggLoc' = FreshLocals(aggLoc)
    /\ aggCalls' = aggCalls + 1
    /\ UNCHANGED <<aggHash, aggTrace, aggFailedAt, aggReq, aggPrev, aggRet>>
    /\ UNCHANGED <<l1Vars, l2Vars, locVars, scanVars>>

\* line 170: a second call, for the same withdrawal hash (in any form) and the
\* same prover, after the first has ended
AggCallAgain(arg) ==
    /\ aggPc \in {"returned", "raised"}
    /\ aggCalls = 1
    /\ \E h \in Hashes : aggArg \in HashForms(h) /\ arg \in HashForms(h)
    /\ aggPrev' = [pc |-> aggPc, ret |-> aggRet, failedAt |-> aggFailedAt]
    /\ aggPc' = "decode"
    /\ aggArg' = arg
    /\ aggLoc' = FreshLocals(aggLoc)
    /\ aggHash' = << >>
    /\ aggTrace' = << >>
    /\ aggFailedAt' = "none"
    /\ aggReq' = << >>
    /\ aggRet' = NoRecord
    /\ aggCalls' = aggCalls + 1
    /\ UNCHANGED aggSub
    /\ UNCHANGED <<l1Vars, l2Vars, locVars, scanVars>>

\* lines 171-172: a str argument is decoded with bytes.fromhex
AggDecode ==
    /\ aggPc = "decode"
    /\ IF aggArg.kind = "str" /\ ~FromHexOk(aggArg.val)
       THEN /\ aggFailedAt' = "decode"
            /\ aggPc' = IF Propagates("decode") THEN "raised" ELSE "proven"
            /\ UNCHANGED aggHash
       ELSE /\ aggHash' = IF aggArg.kind = "str" THEN FromHex(aggArg.val) ELSE aggArg.val
            /\ aggPc' = "proven"
            /\ UNCHANGED aggFailedAt
    /\ UNCHANGED <<aggArg, aggSub, aggLoc, aggTrace, aggReq, aggCalls, aggPrev, aggRet>>
    /\ UNCHANGED <<l1Vars, l2Vars, locVars, scanVars>>

\* one collaborator call: it is issued, then either answers (the locals become
\* newLoc) or raises; an exception outside the try block ends the call
AggStep(step, ok, newLoc) ==
    /\ aggPc = step
    /\ aggTrace' = Append(aggTrace, step)
    /\ IF ok
       THEN /\ aggLoc' = newLoc
            /\ aggPc' = NextPc(step)
            /\ UNCHANGED aggFailedAt
       ELSE /\ aggFailedAt' = step
            /\ IF Propagates(step)
               THEN aggPc' = "raised" /\ UNCHANGED aggLoc
               ELSE /\ aggPc' = NextPc(step)
                    /\ aggLoc' = [aggLoc EXCEPT !.optimism_outputAtBlock = NoneVal]
    /\ aggReq' = IF step = "output" THEN OutputParam(aggLoc) ELSE aggReq
    /\ UNCHANGED <<aggArg, aggSub, aggHash, aggCalls, aggPrev, aggRet>>
    /\ UNCHANGED <<l1Vars, l2Vars, locVars, scanVars>>

\* line 173
AggProven(ok) ==
    AggStep("proven", ok,
        [aggLoc EXCEPT !.gameProxyAddress = proven[<<aggHash, aggSub>>].gameProxyAddress,
                       !.timestamp = proven[<<aggHash, aggSub>>].timestamp])

\* line 174 (get_fault_dispute_game, lines 57-62)
AggBind(ok) ==
    AggStep("bind", ok, [aggLoc EXCEPT !.game = aggLoc.gameProxyAddress])

\* line 175
AggL2Block(ok) ==
    AggStep("l2", ok, [aggLoc EXCEPT !.l2BlockNumber = gameL2[aggLoc.game]])

\* line 176
AggRootClaim(ok) ==
    AggStep("root", ok, [aggLoc EXCEPT !.rootClaim = RootClaimOf(aggLoc.game)])

\* line 178
AggSentMessages(ok) ==
    AggStep("sent", ok, [aggLoc EXCEPT !.sentMessages = sent[aggHash]])

\* lines 180-184 (optimism_output_at_block, lines 189-210)
AggOutputRoot(resp) ==
    AggStep("output", OutputAtBlockOk(resp),
        [aggLoc EXCEPT !.optimism_outputAtBlock = resp.outputRoot])

\* line 186
AggReturn ==
    /\ aggPc = "return"
    /\ aggPc' = "returned"
    /\ aggRet' = [gameProxyAddress |-> aggLoc.gameProxyAddress,
                  timestamp |-> aggLoc.timestamp,
                  l2BlockNumber |-> aggLoc.l2BlockNumber,
                  rootClaim |-> <<"0", "x">> \o BytesHex(aggLoc.rootClaim),
                  sentMessages |-> aggLoc.sentMessages,
                  optimism_outputAtBlock |-> aggLoc.optimism_outputAtBlock]
    /\ UNCHANGED <<aggArg, aggSub, aggHash, aggLoc, aggTrace, aggFailedAt, aggReq, aggCalls, aggPrev>>
    /\ UNCHANGED <<l1Vars, l2Vars, locVars, scanVars>>

\* ========================================================== specifications
IdleL1 == chain = <<1>> /\ events = {}
IdleL2 ==
    /\ proven = [k \in Hashes \X Submitters |-> [gameProxyAddress |-> "game1", timestamp |-> 1700]]
    /\ gameL2 = [g \in Games |-> 9]
    /\ sent = [h \in Hashes |-> TRUE]

\* every chain of at most MaxHead + 1 blocks with timestamps in 1..MaxTime
Chains == UNION {[1..n -> 1..MaxTime] : n \in 1..(MaxHead + 1)}

InitLocator ==
    /\ chain \in Chains
    /\ events = {}
    /\ IdleL2 /\ LocIdle /\ ScanIdle /\ AggIdle

NextLocator ==
    \/ \E t \in 0..(MaxTime + 1) : LocStart(t)
    \/ LocSearch
    \/ LocPick
    \/ LocRefine

SpecLocator == InitLocator /\ [][NextLocator]_vars

\* the locator runs in one thread that is never suspended for ever
FairLocator == SpecLocator /\ WF_vars(NextLocator)

InitScanner ==
    /\ \E h \in 0..MaxScanHead :
          /\ chain = [b \in 1..(h + 1) |-> b]
          /\ events \in SUBSET (0..h)
    /\ IdleL2 /\ LocIdle /\ ScanIdle /\ AggIdle

NextScanner ==
    \/ \E s \in (-1)..(MaxScanHead + 1), bsz \in 1..MaxBatch, headOk \in BOOLEAN :
          ScanCall(s, bsz, headOk)
    \/ ScanGuard
    \/ \E logsOk \in BOOLEAN, tsOk \in BOOLEAN : ScanWindow(logsOk, tsOk)

SpecScanner == InitScanner /\ [][NextScanner]_vars

\* the scanner on a chain whose head advances during the scan
NextScannerLive ==
    \/ NextScanner
    \/ \E withEvent \in BOOLEAN : ChainAdvance(withEvent)

SpecScannerLive == InitScanner /\ [][NextScannerLive]_vars

\* the scan runs in one thread that is never suspended for ever: a step that
\* can be taken is eventually taken
FairScanner == SpecScanner /\ WF_vars(NextScanner)

InitAggregator ==
    /\ IdleL1
    /\ proven \in [Hashes \X Submitters -> ProvenRecords]
    /\ gameL2 \in [Games -> L2Blocks]
    /\ sent \in [Hashes -> BOOLEAN]
    /\ LocIdle /\ ScanIdle /\ AggIdle

NextAggregator ==
    \/ \E h \in Hashes, sub \in Submitters : \E arg \in HashForms(h) : AggCall(arg, sub)
    \/ AggDecode
    \/ \E ok \in BOOLEAN : AggProven(ok)
    \/ \E ok \in BOOLEAN : AggBind(ok)
    \/ \E ok \in BOOLEAN : AggL2Block(ok)
    \/ \E ok \in BOOLEAN : AggRootClaim(ok)
    \/ \E ok \in BOOLEAN : AggSentMessages(ok)
    \/ \E resp \in Responses(OutputParam(aggLoc)) : AggOutputRoot(resp)
    \/ AggReturn

SpecAggregator == InitAggregator /\ [][NextAggregator]_vars

\* two calls for the same withdrawal hash and prover against one chain state
InitAggregatorTwice ==
    /\ IdleL1
    /\ proven \in [Hashes \X Submitters -> ProvenRecords]
    /\ gameL2 \in [Games -> L2Blocks]
    /\ sent = [h \in Hashes |-> h[1] = 1]
    /\ LocIdle /\ ScanIdle /\ AggIdle

NextAggregatorTwice ==
    \/ NextAggregator
    \/ \E h \in Hashes : \E arg \in HashForms(h) : AggCallAgain(arg)

SpecAggregatorTwice == InitAggregatorTwice /\ [][NextAggregatorTwice]_vars

\* ================================================================== claims
\* block timestamps are non-decreasing in the block number
Monotone == \A i \in 1..(Len(chain) - 1) : chain[i] <= chain[i + 1]

\* the locator was called on a monotone chain with a target at or after genesis
LocatorInDomain == locPc # "idle" /\ Monotone /\ target >= TS(0)

\* C1 as stated: on a chain with non-decreasing timestamps and t >= timestamp(0)
\* the locator returns the unique block b with timestamp(b) <= t and, unless b
\* is the head, t < timestamp(b + 1).
C1_Original ==
    LocatorInDomain =>
        /\ locPc # "raised"
        /\ locPc = "returned" =>
              /\ TS(locRet) <= target
              /\ (locRet = L1Head \/ target < TS(locRet + 1))

\* C1 as amended: on such a chain the locator does not raise, and the block b it
\* returns has timestamp(b) <= t and, unless b is the head, t < timestamp(b + 1)
\* or timestamp(b) = t: with an exact match it may return any block whose
\* timestamp is t, not only the last one.
C1_Locator ==
    LocatorInDomain =>
        /\ locPc # "raised"
        /\ locPc = "returned" =>
              /\ BlockExists(locRet)
              /\ TS(locRet) <= target
              /\ (locRet = L1Head \/ target < TS(locRet + 1) \/ TS(locRet) = target)
              /\ (locVia = "refine" => (locRet = L1Head \/ target < TS(locRet + 1)))

\* C1, reached: the locator returned, through the refinement, a block below the
\* head of a monotone chain that holds two blocks with the same timestamp
C1_Witness ==
    /\ LocatorInDomain /\ locPc = "returned" /\ locVia = "refine"
    /\ locRet < L1Head
    /\ \E i \in 1..(Len(chain) - 1) : chain[i] = chain[i + 1]

\* C6 as stated, on the chains with non-decreasing timestamps: for a target
\* before the genesis timestamp the locator returns block 0; it asks for no
\* block with a negative number and does not fail.
C6_BeforeGenesis ==
    (locPc # "idle" /\ Monotone /\ target < TS(0)) =>
        /\ \A i \in 1..Len(locReads) : locReads[i] >= 0
        /\ locPc # "raised"
        /\ locPc = "returned" => locRet = 0

\* C7: on any chain, monotone or not, and for any target, a returned block has
\* a timestamp at or before the target, whichever return was taken.
C7_UpperBound ==
    locPc = "returned" => (BlockExists(locRet) /\ TS(locRet) <= target)

\* C7, reached: on a chain that is not monotone the refinement stepped back at
\* least once and then returned
C7_Witness ==
    /\ locPc = "returned" /\ locVia = "refine" /\ ~Monotone
    /\ locRet < ClosestBlock(low, high, latest)

\* the scan has ended with a result
ScanEnded == scanPc \in {"returned", "notfound"}

\* the starting block after clamping, computed from the caller's argument
Floor == IF scanArg < 0 THEN 0 ELSE scanArg

\* C2: when no chain read fails and some matching event lies in
\* [max(0, s), head], the scan ends by returning the matching event with the
\* greatest block number of the whole chain.
C2_Latest ==
    (ScanEnded /\ ~scanFailed /\ \E e \in events : e >= Floor /\ e <= scanHead) =>
        /\ scanPc = "returned"
        /\ scanRet.log \in events
        /\ \A e \in events : e <= scanRet.log
        /\ scanRet.timestamp.blockNumber = scanRet.log

\* C2, reached: on a chain with at least three events a scan from block 0 with
\* no failing read walked past an empty window and returned the newest event
C2_Witness ==
    /\ scanPc = "returned" /\ ~scanFailed /\ scanArg = 0
    /\ Cardinality(events) >= 3
    /\ scanCur < scanHead
    /\ scanRet.log < scanHead

\* C3 as stated: once the head is read, the scan eventually ends with an event
\* or with not-found, for every starting block, batch size, event set and
\* pattern of failing windows.
C3_Terminates == (scanPc = "loop") ~> ScanEnded

\* C4 as stated: a returned event lies in [max(0, startingBlock), head].
C4_Range ==
    scanPc = "returned" => (scanRet.log >= Floor /\ scanRet.log <= scanHead)

\* C5 as stated: when startingBlock is above every matching event (and at most
\* the head), the scan ends with not-found.
C5_NotFound ==
    (ScanEnded /\ scanArg <= scanHead /\ \A e \in events : scanArg > e) =>
        scanPc = "notfound"

\* C10 as stated: after a failed log fetch the scan has not raised, the next
\* window's upper bound is the failed window's lower bound, and the scan still
\* ends with an event or with not-found.
C10_FailureTolerance ==
    /\ [](scanLast = "logsFail" => (scanPc # "raised" /\ scanCur = scanFrom))
    /\ (scanLast = "logsFail") ~> ScanEnded

\* the withdrawal hash the caller means, whatever the form of the argument
ArgHash == CHOOSE h \in Hashes : aggArg \in HashForms(h)

\* the hexadecimal text of each game's root claim, written out
ExpectedRootClaim(g) ==
    IF g = "game1" THEN <<"0", "x", "1", "2", "3", "4">>
                   ELSE <<"0", "x", "a", "b", "0", "0">>

\* the record get_game_data owes for its arguments, with output root o
ExpectedRecord(o) ==
    LET p == proven[<<ArgHash, aggSub>>] IN
    [gameProxyAddress |-> p.gameProxyAddress,
     timestamp |-> p.timestamp,
     l2BlockNumber |-> gameL2[p.gameProxyAddress],
     rootClaim |-> ExpectedRootClaim(p.gameProxyAddress),
     sentMessages |-> sent[ArgHash],
     optimism_outputAtBlock |-> o]

\* C8: when the first five reads answer and the output-root fetch fails, in any
\* way, the call does not raise: it returns the record of the values read, with
\* the output root absent.
C8_SoftFailure ==
    aggFailedAt = "output" =>
        /\ aggPc \in {"return", "returned"}
        /\ aggPc = "returned" => aggRet = ExpectedRecord(NoneVal)

\* C8, reached: the call returned after the output-root fetch failed
C8_Witness == aggPc = "returned" /\ aggFailedAt = "output"

\* the calls issued when the call fails at step
TraceUpTo(step) ==
    IF step = "decode" THEN << >>
    ELSE SubSeq(AggOrder, 1, CHOOSE i \in 1..Len(AggOrder) : AggOrder[i] = step)

\* C9: a failure of the input decoding or of any of the first five reads ends
\* the call with the exception: no record is returned, the failed call was
\* issued once, and no later call (the output-root fetch least of all) is issued.
C9_HardFailure ==
    aggFailedAt \in {"decode", "proven", "bind", "l2", "root", "sent"} =>
        /\ aggPc = "raised"
        /\ aggRet = NoRecord
        /\ aggTrace = TraceUpTo(aggFailedAt)

\* C9, reached: the sentMessages read failed after four reads had answered
C9_Witness == aggPc = "raised" /\ aggFailedAt = "sent" /\ Len(aggTrace) = 5

\* ------------------------------------------------ the scanner, C11 to C18
\* the matching events of the chain in the block range of window w
WindowEvents(w) == {e \in events : e >= w.from /\ e <= w.to}

MaxOf(S) == CHOOSE x \in S : \A y \in S : y <= x

\* the windows whose processing raised
FailedWindows == {w \in scanWindows : w.outcome \in {"logsFail", "tsFail"}}

\* the block ranges passed to get_logs
Ranges == {<<w.from, w.to>> : w \in scanWindows}

\* the number of blocks two ranges have in common
Overlap(r, q) == Cardinality((r[1]..r[2]) \cap (q[1]..q[2]))

\* C11 as stated: once the log fetch of a window has answered with at least
\* one event the scan returns the last event of that window and fetches no
\* older window, whichever reads of the scan succeed or fail.
C11_EarlyReturn ==
    \A w \in scanWindows :
        w.outcome \in {"found", "tsFail"} =>
            /\ scanPc = "returned"
            /\ scanRet.log = MaxOf(WindowEvents(w))
            /\ \A v \in scanWindows : v.to >= w.to

\* C12: a scan reads the chain head once, before its first log fetch, and no
\* window reaches above that value, even when the head advances meanwhile.
C12_HeadSnapshot ==
    /\ scanHeadReads <= 1
    /\ scanPc # "idle" => scanHeadReads = 1
    /\ scanWindows # {} => scanHeadReads = 1
    /\ \A w \in scanWindows : w.to <= scanHead

\* C12, reached: the scan ended after several windows on a chain whose head
\* had advanced beyond the value the scan read
C12_Witness ==
    /\ ScanEnded /\ L1Head > scanHead
    /\ Cardinality(Ranges) >= 2
    /\ scanHead + 1 \in events

C18_UnderFailures ==
    scanPc = "returned" =>
        /\ scanRet.log = MaxOf({e \in events : e >= scanFrom /\ e <= scanCur})
        /\ \A v \in scanWindows :
              v.to > scanCur => (v \in FailedWindows \/ WindowEvents(v) = {})
        /\ (\E e \in events : e > scanRet.log) =>
              \E v \in FailedWindows : v.to > scanCur

\* C18, reached: the scan returned an event older than the newest one after a
\* failed window and an empty window
C18_Witness ==
    /\ scanPc = "returned"
    /\ \E e \in events : e > scanRet.log
    /\ \E v \in scanWindows : v.to > scanCur /\ v.outcome = "empty"
    /\ \E v \in scanWindows : v.to > scanCur /\ v.outcome = "logsFail"

\* --------------------------------------------- the aggregator, C13 to C17
\* the L2 block of the game the registry names for the caller's hash and prover
OwedBlock == gameL2[proven[<<ArgHash, aggSub>>].gameProxyAddress]

\* the request parameter and the node's output root for each L2 block, written out
ExpectedParam(b) == IF b = 9 THEN <<"0", "x", "9">> ELSE <<"0", "x", "1", "a">>
ExpectedOutput(b) == IF b = 9 THEN <<"0", "x", "f", "9">> ELSE <<"0", "x", "f", "1", "a">>

\* C13: the output root is requested for the l2BlockNumber of the game bound at
\* the address the provenWithdrawals lookup gave for (hash, prover), and for no
\* other block; an output root in the result is the node's answer for that block.
C13_BlockBinding ==
    /\ aggReq # << >> => aggReq = ExpectedParam(OwedBlock)
    /\ (aggCalls > 0 /\ \E i \in 1..Len(aggTrace) : aggTrace[i] = "output") => aggReq # << >>
    /\ (aggPc = "returned" /\ aggRet.optimism_outputAtBlock # NoneVal) =>
          /\ aggRet.l2BlockNumber = OwedBlock
          /\ aggRet.optimism_outputAtBlock = ExpectedOutput(OwedBlock)

\* C13, reached: a result with an output root, for a game whose L2 block
\* differs from the other game's
C13_Witness ==
    /\ aggPc = "returned" /\ aggRet.optimism_outputAtBlock # NoneVal
    /\ gameL2["game1"] # gameL2["game2"]
    /\ OwedBlock = 26

\* a record without its output-root field
Core(r) == [r EXCEPT !.optimism_outputAtBlock = << >>]

C15_Normalization ==
    aggPc \notin {"idle", "decode"} =>
        /\ aggFailedAt # "decode"
        /\ aggHash = ArgHash
        /\ (aggPc = "returned" /\ aggFailedAt = "none") =>
              aggRet = ExpectedRecord(ExpectedOutput(OwedBlock))

\* the order in which get_game_data calls its collaborators, written out
ExpectedOrder == <<"proven", "bind", "l2", "root", "sent", "output">>

\* C17: the collaborator calls of a get_game_data call are a prefix of
\* provenWithdrawals, game binding, l2BlockNumber, rootClaim, sentMessages,
\* output root, each issued once and only after the one before it has answered.
C17_CallOrder ==
    /\ \E k \in 0..Len(ExpectedOrder) : aggTrace = SubSeq(ExpectedOrder, 1, k)
    /\ \A i \in 1..(Len(aggTrace) - 1) : aggFailedAt # aggTrace[i]
    /\ aggPc \in {"return", "returned"} => aggTrace = ExpectedOrder

\* C17, reached: a call that returned after all six collaborator calls
C17_Witness == aggPc = "returned" /\ Len(aggTrace) = 6 /\ aggFailedAt = "none"

\* ------------------------------------------------------ the locator, C19
\* the binary search has ended without an exact match
SearchMissed == locPc = "refine" \/ (locPc \in {"returned", "raised"} /\ locVia # "exact")

\* C19: the binary search always ends, and on a chain with non-decreasing
\* timestamps and t >= timestamp(0), when it ends without an exact match it
\* ends with low = high + 1 and the refinement steps back at most once, reading
\* at most two block headers, before it returns.
C19_RefinementBound ==
    /\ [](( LocatorInDomain /\ SearchMissed) =>
             /\ low = high + 1
             /\ locRefines <= 2
             /\ ClosestBlock(low, high, latest) - closest <= 1
             /\ locPc # "raised")
    /\ (locPc = "search") ~> (locPc # "search")

\* C19, reached: the refinement read two block headers, stepping back once, and
\* returned
C19_Witness ==
    /\ LocatorInDomain /\ locPc = "returned" /\ locVia = "refine"
    /\ locRefines = 2
    /\ locRet = ClosestBlock(low, high, latest) - 1

====
